---------------------------- MODULE Spec2Model ----------------------------
(***************************************************************************)
(* A model of main.go: the fetch goroutine of fetchTodoWithErrorChan, the  *)
(* deadline race of simulateSlowRequest and of main's Example 1, and the   *)
(* fan-out of fetchMultipleTodos.                                          *)
(*                                                                         *)
(* Goroutines are processes with a program counter each.  A channel is its *)
(* buffer (a sequence of at most ChanCap values) and a closed flag; a      *)
(* receive from a closed, empty channel yields the zero value (nil).  A    *)
(* select is one step that takes any one of the cases that can proceed at  *)
(* that moment, as the language defines it.                                *)
(*                                                                         *)
(* Time is a discrete clock in the unit of the source's seconds.  Steps of *)
(* goroutines take no time: the clock advances only when no goroutine can  *)
(* take a step (zero scheduling slack), so "at about time D" is "at clock  *)
(* value D".  Steps enabled at the same clock value interleave freely.     *)
(***************************************************************************)
EXTENDS Integers, Sequences, FiniteSets, TLC

\* ------------------------------------------------------------- bounds
MaxDeadline == 5    \* deadlines and minDuration range over 0..MaxDeadline
MaxLatency == 1     \* the remote call answers after 0..MaxLatency seconds
MaxN == 2           \* fetchMultipleTodos is called with 1..MaxN ids
MaxId == 2          \* todo ids range over 1..MaxId

\* ---------------------------------------------------- program constants
Delay == 3          \* delay := 3 * time.Second
ChanCap == 1        \* make(chan *Todo, 1), make(chan error, 1)
ExampleTimeout == 2 \* context.WithTimeout(context.Background(), 2*time.Second)

NoDeadline == 0 - 1
MaxTime == (IF MaxDeadline > Delay + MaxLatency THEN MaxDeadline ELSE Delay + MaxLatency) + 1
IdSet == 1..MaxId

VARIABLES
    mode,        \* which entry point runs: "simulate", "main1" or "batch"
    ids,         \* the ids of the operations, one fetch goroutine per element
    now,         \* the clock
    ctxDeadline, \* deadline of the caller's ctx, or NoDeadline
    ctxErr,      \* ctx.Err(): "none" while ctx.Done() is open
    minDuration, \* simulateSlowRequest's minDuration
    tctxAt,      \* deadline of timeoutCtx, NoDeadline before it is created
    tctxErr,     \* timeoutCtx.Err()
    fpc,         \* fetch goroutine o: position
    timerAt,     \* fetch goroutine o: when time.After(delay) fires
    respAt,      \* fetch goroutine o: when the remote call answers
    calls,       \* history: how often goroutine o has called the remote end
    todoChan,    \* buffer of todoChan of operation o
    errChan,     \* buffer of errChan of operation o
    todoClosed,  \* todoChan of operation o is closed
    errClosed,   \* errChan of operation o is closed
    sent,        \* history: the values goroutine o has sent, in order
    sentAt,      \* history: the clock at goroutine o's send, NoDeadline before
    cpc,         \* the caller: position
    result,      \* what the caller returned (or logged)
    retAt,       \* the clock when the caller returned
    cancelAt,    \* history: the clock when ctx was cancelled from outside
    wpc,         \* fetchMultipleTodos, worker goroutine o: position
    held,        \* worker o: what its select received
    mu,          \* the worker holding mu, 0 when unlocked
    todos,       \* the todos slice
    errs,        \* the errs slice
    wg,          \* the WaitGroup's counter
    doneClosed,  \* the waiter goroutine has closed done
    wtpc         \* the waiter goroutine: position

vars == <<mode, ids, now, ctxDeadline, ctxErr, minDuration, tctxAt, tctxErr,
          fpc, timerAt, respAt, calls, todoChan, errChan, todoClosed, errClosed,
          sent, sentAt, cpc, result, retAt, cancelAt,
          wpc, held, mu, todos, errs, wg, doneClosed, wtpc>>

batchVars == <<wpc, held, mu, todos, errs, wg, doneClosed, wtpc>>

ctxVars == <<ctxDeadline, ctxErr, minDuration, tctxAt, tctxErr, cancelAt>>
chanVars == <<todoChan, errChan, todoClosed, errClosed, sent, sentAt>>
fetchVars == <<fpc, timerAt, respAt, calls>>
callerVars == <<cpc, result, retAt>>

Ops == 1..Len(ids)

\* ------------------------------------------------------------- values
NilTodo == [op |-> 0, id |-> 0]
NilErr == [kind |-> "nil", cause |-> "none"]
\* &todo of goroutine o: the Todo decoded from the answer for ids[o]
TodoOf(o) == [op |-> o, id |-> ids[o]]
\* fmt.Errorf(<kind>: %v, <cause>): cause is the ctx.Err() in the text, if any
Errorf(kind, cause) == [kind |-> kind, cause |-> cause]

NoResult == [todo |-> NilTodo, err |-> NilErr, via |-> "none"]

\* The ctx the fetch goroutine was given: timeoutCtx under simulateSlowRequest,
\* the caller's ctx in main's Example 1 and in fetchMultipleTodos.
FetchCtxErr == IF mode = "simulate" THEN tctxErr ELSE ctxErr

\* ------------------------------------------------------------ channels
\* A receive can proceed when the buffer holds a value or the channel is closed.
CanRecv(buf, closed) == Len(buf) > 0 \/ closed
\* The value a receive yields: the head of the buffer, else the zero value.
RecvVal(buf, zero) == IF Len(buf) > 0 THEN Head(buf) ELSE zero
RecvRest(buf) == IF Len(buf) > 0 THEN Tail(buf) ELSE buf
\* a channel made without a buffer: with nobody receiving a send finds no room
CanSendUnbuffered(buf) == Len(buf) < 0
\* A send can proceed while the buffer has room.
CanSend(buf) == Len(buf) < ChanCap


\* errChan <- e, by goroutine o (blocks while the buffer is full)
SendErr(o, e) ==
    /\ CanSend(errChan[o])
    /\ errChan' = [errChan EXCEPT ![o] = Append(@, e)]
    /\ sent' = [sent EXCEPT ![o] = Append(@, [ch |-> "err", todo |-> NilTodo, err |-> e])]
    /\ sentAt' = [sentAt EXCEPT ![o] = now]
    /\ UNCHANGED <<todoChan, todoClosed, errClosed>>

\* todoChan <- &todo, by goroutine o
SendTodo(o) ==
    /\ CanSend(todoChan[o])
    /\ todoChan' = [todoChan EXCEPT ![o] = Append(@, TodoOf(o))]
    /\ sent' = [sent EXCEPT ![o] = Append(@, [ch |-> "todo", todo |-> TodoOf(o), err |-> NilErr])]
    /\ sentAt' = [sentAt EXCEPT ![o] = now]
    /\ UNCHANGED <<errChan, todoClosed, errClosed>>

\* ------------------------------------------- fetchTodoWithErrorChan
\* go func() {...}(): the goroutine of operation o starts at its select on
\* time.After(delay) and ctx.Done(), both channels open and empty.
SpawnFetch(o) ==
    /\ fpc' = [fpc EXCEPT ![o] = "delay"]
    /\ timerAt' = [timerAt EXCEPT ![o] = now + Delay]
    /\ UNCHANGED <<respAt, calls>>

\* a timer case that is ready at once: the delay does not wait
DelayElapsedAtOnce(o) ==
    /\ fpc[o] = "delay"
    /\ fpc' = [fpc EXCEPT ![o] = "request"]
    /\ UNCHANGED <<timerAt, respAt, calls, chanVars>>

\* select, case <-time.After(delay): continue to the request
DelayElapsed(o) ==
    /\ fpc[o] = "delay"
    /\ now >= timerAt[o]
    /\ fpc' = [fpc EXCEPT ![o] = "request"]
    /\ UNCHANGED <<timerAt, respAt, calls, chanVars>>

\* DelayCancelled with the return after the send forgotten: the goroutine goes
\* on to the request
DelayCancelledNoReturn(o) ==
    /\ fpc[o] = "delay"
    /\ FetchCtxErr # "none"
    /\ SendErr(o, Errorf("request cancelled before starting", FetchCtxErr))
    /\ fpc' = [fpc EXCEPT ![o] = "request"]
    /\ UNCHANGED <<timerAt, respAt, calls>>

\* select, case <-ctx.Done(): send the error and return (the deferred closes follow)
DelayCancelled(o) ==
    /\ fpc[o] = "delay"
    /\ FetchCtxErr # "none"
    /\ SendErr(o, Errorf("request cancelled before starting", FetchCtxErr))
    /\ fpc' = [fpc EXCEPT ![o] = "closeErr"]
    /\ UNCHANGED <<timerAt, respAt, calls>>

\* http.NewRequestWithContext succeeds (the method is the constant "GET", the
\* URL is well formed for every int and ctx is not nil, so its error branch is
\* dead) and http.DefaultClient.Do(req) is called: the answer is MaxLatency or
\* less away
DoCalled(o) ==
    /\ fpc[o] = "request"
    /\ \E l \in 0..MaxLatency : respAt' = [respAt EXCEPT ![o] = now + l]
    /\ calls' = [calls EXCEPT ![o] = @ + 1]
    /\ fpc' = [fpc EXCEPT ![o] = "do"]
    /\ UNCHANGED <<timerAt, chanVars>>

\* Do returns an error because the request's ctx is done
DoInterrupted(o) ==
    /\ fpc[o] = "do"
    /\ FetchCtxErr # "none"
    /\ SendErr(o, Errorf("request failed", FetchCtxErr))
    /\ fpc' = [fpc EXCEPT ![o] = "closeErr"]
    /\ UNCHANGED <<timerAt, respAt, calls>>

\* a failure that is retried: the goroutine goes back to the request
FetchFailsRetry(o) ==
    /\ fpc[o] = "do"
    /\ now >= respAt[o]
    /\ fpc' = [fpc EXCEPT ![o] = "request"]
    /\ UNCHANGED <<timerAt, respAt, calls, chanVars>>

\* The remote end has answered and Do, io.ReadAll or json.Unmarshal fails
FetchFails(o) ==
    /\ fpc[o] = "do"
    /\ now >= respAt[o]
    /\ \E k \in {"request failed", "error reading response", "error decoding response"} :
          SendErr(o, Errorf(k, "none"))
    /\ fpc' = [fpc EXCEPT ![o] = "closeErr"]
    /\ UNCHANGED <<timerAt, respAt, calls>>

\* The remote end has answered, the body is read and decoded: todoChan <- &todo
FetchSucceeds(o) ==
    /\ fpc[o] = "do"
    /\ now >= respAt[o]
    /\ SendTodo(o)
    /\ fpc' = [fpc EXCEPT ![o] = "closeErr"]
    /\ UNCHANGED <<timerAt, respAt, calls>>

\* defer close(errChan): registered last, so it runs first
CloseErrChan(o) ==
    /\ fpc[o] = "closeErr"
    /\ errClosed' = [errClosed EXCEPT ![o] = TRUE]
    /\ fpc' = [fpc EXCEPT ![o] = "closeTodo"]
    /\ UNCHANGED <<timerAt, respAt, calls, todoChan, errChan, todoClosed, sent, sentAt>>

\* defer close(todoChan): registered first, so it runs last
CloseTodoChan(o) ==
    /\ fpc[o] = "closeTodo"
    /\ todoClosed' = [todoClosed EXCEPT ![o] = TRUE]
    /\ fpc' = [fpc EXCEPT ![o] = "done"]
    /\ UNCHANGED <<timerAt, respAt, calls, todoChan, errChan, errClosed, sent, sentAt>>

\* One step of the fetch goroutine of operation o
FetchStep(o) ==
    \/ DelayElapsed(o)
    \/ DelayCancelled(o)
    \/ DoCalled(o)
    \/ DoInterrupted(o)
    \/ FetchFails(o)
    \/ FetchSucceeds(o)
    \/ CloseErrChan(o)
    \/ CloseTodoChan(o)

\* The fetch goroutine of operation o can take a step now
FetchReady(o) ==
    \/ fpc[o] = "delay" /\ (now >= timerAt[o] \/ FetchCtxErr # "none")
    \/ fpc[o] = "request"
    \/ fpc[o] = "do" /\ (now >= respAt[o] \/ FetchCtxErr # "none")
    \/ fpc[o] \in {"closeErr", "closeTodo"}


\* ------------------------------------------------------------ contexts
\* cancel() of the caller's ctx, called from outside at any moment
Cancel ==
    /\ mode # "main1"
    /\ ctxErr = "none"
    /\ ctxErr' = "canceled"
    /\ cancelAt' = now
    /\ UNCHANGED <<mode, ids, now, ctxDeadline, minDuration, tctxAt, tctxErr,
                   fetchVars, chanVars, callerVars, batchVars>>

\* A done parent cancels its child: timeoutCtx takes over ctx's error
Propagate ==
    /\ tctxAt # NoDeadline
    /\ tctxErr = "none"
    /\ ctxErr # "none"
    /\ tctxErr' = ctxErr
    /\ UNCHANGED <<mode, ids, now, ctxDeadline, ctxErr, minDuration, tctxAt, cancelAt,
                   fetchVars, chanVars, callerVars, batchVars>>

\* context.WithTimeout(ctx, minDuration): born done when ctx is done or the
\* duration is not positive
WithTimeout ==
    /\ tctxAt' = now + minDuration
    /\ tctxErr' = IF ctxErr # "none" THEN ctxErr
                  ELSE IF minDuration <= 0 THEN "deadline" ELSE "none"

\* the deferred cancel() of timeoutCtx
CancelTimeoutCtx ==
    /\ tctxErr' = IF tctxErr = "none" THEN "canceled" ELSE tctxErr
    /\ UNCHANGED tctxAt

\* ------------------------------------------------- simulateSlowRequest
\* timeoutCtx is derived and fetchTodoWithErrorChan(timeoutCtx, todoID) called
SimCall ==
    /\ mode = "simulate"
    /\ cpc = "call"
    /\ WithTimeout
    /\ SpawnFetch(1)
    /\ cpc' = "select"
    /\ UNCHANGED <<mode, ids, now, ctxDeadline, ctxErr, minDuration, cancelAt,
                   chanVars, result, retAt, batchVars>>

\* return of simulateSlowRequest with (todo, err); the deferred cancel() runs
SimReturn(todo, err, via) ==
    /\ result' = [todo |-> todo, err |-> err, via |-> via]
    /\ retAt' = now
    /\ cpc' = "returned"
    /\ CancelTimeoutCtx
    /\ UNCHANGED <<mode, ids, now, ctxDeadline, ctxErr, minDuration, cancelAt,
                   fetchVars, todoClosed, errClosed, sent, sentAt, batchVars>>

\* case todo := <-todoChan
SimSelectTodo ==
    /\ mode = "simulate"
    /\ cpc = "select"
    /\ CanRecv(todoChan[1], todoClosed[1])
    /\ LET todo == RecvVal(todoChan[1], NilTodo) IN
          IF todo = NilTodo
          THEN SimReturn(NilTodo, Errorf("received nil todo", "none"), "todoChan")
          ELSE SimReturn(todo, NilErr, "todoChan")
    /\ todoChan' = [todoChan EXCEPT ![1] = RecvRest(@)]
    /\ UNCHANGED errChan

\* case err := <-errChan
SimSelectErr ==
    /\ mode = "simulate"
    /\ cpc = "select"
    /\ CanRecv(errChan[1], errClosed[1])
    /\ SimReturn(NilTodo, RecvVal(errChan[1], NilErr), "errChan")
    /\ errChan' = [errChan EXCEPT ![1] = RecvRest(@)]
    /\ UNCHANGED todoChan

\* SimSelectDone waiting on timeoutCtx.Done() where the code waits on ctx.Done()
SimSelectDoneOnTimeoutCtx ==
    /\ mode = "simulate"
    /\ cpc = "select"
    /\ tctxErr # "none"
    /\ SimReturn(NilTodo, Errorf("request timed out", tctxErr), "ctxDone")
    /\ UNCHANGED <<todoChan, errChan>>

\* case <-ctx.Done(): the caller's ctx, not timeoutCtx
SimSelectDone ==
    /\ mode = "simulate"
    /\ cpc = "select"
    /\ ctxErr # "none"
    /\ SimReturn(NilTodo, Errorf("request timed out", ctxErr), "ctxDone")
    /\ UNCHANGED <<todoChan, errChan>>

\* --------------------------------------------------- main, Example 1
\* fetchTodoWithErrorChan(ctx, 1) under the 2 second ctx
Main1Call ==
    /\ mode = "main1"
    /\ cpc = "call"
    /\ SpawnFetch(1)
    /\ cpc' = "select"
    /\ UNCHANGED <<mode, ids, now, ctxVars, chanVars, result, retAt, batchVars>>

\* what Example 1 logs: the case taken and the value it received
Main1Log(todo, err, via) ==
    /\ result' = [todo |-> todo, err |-> err, via |-> via]
    /\ retAt' = now
    /\ cpc' = "returned"
    /\ UNCHANGED <<mode, ids, now, ctxVars, fetchVars, todoClosed, errClosed,
                   sent, sentAt, batchVars>>

\* case todo := <-todoChan: "Successfully fetched todo"
Main1SelectTodo ==
    /\ mode = "main1"
    /\ cpc = "select"
    /\ CanRecv(todoChan[1], todoClosed[1])
    /\ Main1Log(RecvVal(todoChan[1], NilTodo), NilErr, "todoChan")
    /\ todoChan' = [todoChan EXCEPT ![1] = RecvRest(@)]
    /\ UNCHANGED errChan

\* case err := <-errChan: "Error after"
Main1SelectErr ==
    /\ mode = "main1"
    /\ cpc = "select"
    /\ CanRecv(errChan[1], errClosed[1])
    /\ Main1Log(NilTodo, RecvVal(errChan[1], NilErr), "errChan")
    /\ errChan' = [errChan EXCEPT ![1] = RecvRest(@)]
    /\ UNCHANGED todoChan

\* case <-ctx.Done(): "Context done after"
Main1SelectDone ==
    /\ mode = "main1"
    /\ cpc = "select"
    /\ ctxErr # "none"
    /\ Main1Log(NilTodo, Errorf("context done", ctxErr), "ctxDone")
    /\ UNCHANGED <<todoChan, errChan>>

\* ---------------------------------------------------------------- time
\* The caller of a single operation can take a step now
CallerReady ==
    \/ cpc = "call"
    \/ /\ cpc = "select"
       /\ \/ CanRecv(todoChan[1], todoClosed[1])
          \/ CanRecv(errChan[1], errClosed[1])
          \/ ctxErr # "none"

PropagateReady == tctxAt # NoDeadline /\ tctxErr = "none" /\ ctxErr # "none"

\* Some goroutine can take a step: the clock waits
Busy == CallerReady \/ PropagateReady \/ \E o \in Ops : FetchReady(o)

\* One second passes; the timers of the contexts that are due fire
Tick ==
    /\ ~Busy
    /\ now < MaxTime
    /\ now' = now + 1
    /\ ctxErr' = IF ctxErr = "none" /\ ctxDeadline # NoDeadline /\ now + 1 >= ctxDeadline
                 THEN "deadline" ELSE ctxErr
    /\ tctxErr' = IF tctxErr = "none" /\ tctxAt # NoDeadline /\ now + 1 >= tctxAt
                  THEN "deadline" ELSE tctxErr
    /\ UNCHANGED <<mode, ids, ctxDeadline, minDuration, tctxAt, cancelAt,
                   fetchVars, chanVars, callerVars, batchVars>>

\* ------------------------------------------------------- single operation
FetchNext ==
    \E o \in Ops :
        /\ FetchStep(o)
        /\ UNCHANGED <<mode, ids, now, ctxVars, callerVars, batchVars>>

\* The state common to every entry point, for the ids and ctx deadline given
InitCommon(m, is, d) ==
    /\ mode = m
    /\ ids = is
    /\ now = 0
    /\ ctxDeadline = d
    /\ ctxErr = IF d = 0 THEN "deadline" ELSE "none"
    /\ tctxAt = NoDeadline
    /\ tctxErr = "none"
    /\ fpc = [o \in 1..Len(is) |-> "none"]
    /\ timerAt = [o \in 1..Len(is) |-> 0]
    /\ respAt = [o \in 1..Len(is) |-> 0]
    /\ calls = [o \in 1..Len(is) |-> 0]
    /\ todoChan = [o \in 1..Len(is) |-> <<>>]
    /\ errChan = [o \in 1..Len(is) |-> <<>>]
    /\ todoClosed = [o \in 1..Len(is) |-> FALSE]
    /\ errClosed = [o \in 1..Len(is) |-> FALSE]
    /\ sent = [o \in 1..Len(is) |-> <<>>]
    /\ sentAt = [o \in 1..Len(is) |-> NoDeadline]
    /\ cpc = "call"
    /\ result = NoResult
    /\ retAt = NoDeadline
    /\ cancelAt = NoDeadline
    /\ wpc = [o \in 1..Len(is) |-> "none"]
    /\ held = [o \in 1..Len(is) |-> NoResult]
    /\ mu = 0
    /\ todos = <<>>
    /\ errs = <<>>
    /\ wg = 0
    /\ doneClosed = FALSE
    /\ wtpc = "none"

Deadlines == {NoDeadline} \cup (0..MaxDeadline)

\* simulateSlowRequest(ctx, id, minDuration) about to be called
SimInit ==
    /\ \E i \in IdSet, d \in Deadlines : InitCommon("simulate", <<i>>, d)
    /\ minDuration \in 0..MaxDeadline

\* main's Example 1, just after its ctx is made
Main1Init ==
    /\ InitCommon("main1", <<1>>, ExampleTimeout)
    /\ minDuration = 0

Init == SimInit \/ Main1Init

Next ==
    \/ FetchNext
    \/ SimCall
    \/ SimSelectTodo
    \/ SimSelectErr
    \/ SimSelectDone
    \/ Main1Call
    \/ Main1SelectTodo
    \/ Main1SelectErr
    \/ Main1SelectDone
    \/ Propagate
    \/ Cancel
    \/ Tick

Spec == Init /\ [][Next]_vars

\* A step of the caller of a single operation
CallerNext ==
    \/ SimCall \/ SimSelectTodo \/ SimSelectErr \/ SimSelectDone
    \/ Main1Call \/ Main1SelectTodo \/ Main1SelectErr \/ Main1SelectDone

\* The scheduler runs every goroutine that can run, the context package
\* finishes a cancellation it has begun, and the clock advances.
LiveSpec ==
    /\ Init /\ [][Next]_vars
    /\ WF_vars(FetchNext)
    /\ WF_vars(CallerNext)
    /\ WF_vars(Propagate)
    /\ WF_vars(Tick)

\* ---------------------------------------------------- fetchMultipleTodos
AllSpawned == \A o \in Ops : wpc[o] # "none"
\* the worker the loop over ids starts next
NextWorker == CHOOSE o \in Ops : wpc[o] = "none" /\ \A p \in 1..(o - 1) : wpc[p] # "none"

\* fmt.Errorf("todo %d: %v", id, err), as appended by worker o
TodoErr(o, e) == [op |-> o, id |-> ids[o], err |-> e]

\* one iteration of the loop over ids: wg.Add(1); go func(id int) {...}(id)
BatchSpawn ==
    /\ mode = "batch"
    /\ cpc = "call"
    /\ ~AllSpawned
    /\ wg' = wg + 1
    /\ wpc' = [wpc EXCEPT ![NextWorker] = "fetch"]
    /\ UNCHANGED <<mode, ids, now, ctxVars, fetchVars, chanVars, callerVars,
                   held, mu, todos, errs, doneClosed, wtpc>>

\* after the loop: done := make(chan struct{}); go func() { wg.Wait(); close(done) }()
BatchSpawnWaiter ==
    /\ mode = "batch"
    /\ cpc = "call"
    /\ AllSpawned
    /\ wtpc' = "wait"
    /\ cpc' = "select"
    /\ UNCHANGED <<mode, ids, now, ctxVars, fetchVars, chanVars, result, retAt,
                   wpc, held, mu, todos, errs, wg, doneClosed>>

\* the waiter goroutine: wg.Wait() returns once the counter is zero
WaiterWait ==
    /\ wtpc = "wait"
    /\ wg = 0
    /\ wtpc' = "close"
    /\ UNCHANGED <<mode, ids, now, ctxVars, fetchVars, chanVars, callerVars,
                   wpc, held, mu, todos, errs, wg, doneClosed>>

\* the waiter goroutine: close(done)
WaiterClose ==
    /\ wtpc = "close"
    /\ doneClosed' = TRUE
    /\ wtpc' = "done"
    /\ UNCHANGED <<mode, ids, now, ctxVars, fetchVars, chanVars, callerVars,
                   wpc, held, mu, todos, errs, wg>>

\* worker o: todoChan, errChan := fetchTodoWithErrorChan(ctx, id)
WorkerFetch(o) ==
    /\ wpc[o] = "fetch"
    /\ SpawnFetch(o)
    /\ wpc' = [wpc EXCEPT ![o] = "select"]
    /\ UNCHANGED <<mode, ids, now, ctxVars, chanVars, callerVars,
                   held, mu, todos, errs, wg, doneClosed, wtpc>>

\* worker o leaves its select with the value v to append, or with nothing to
\* append (keep = FALSE): then it returns and the deferred wg.Done() runs
WorkerLeaveSelect(o, keep, v) ==
    /\ held' = [held EXCEPT ![o] = v]
    /\ wpc' = [wpc EXCEPT ![o] = IF keep THEN "lock" ELSE "done"]
    /\ wg' = IF keep THEN wg ELSE wg - 1
    /\ UNCHANGED <<mode, ids, now, ctxVars, fetchVars, todoClosed, errClosed,
                   sent, sentAt, callerVars, mu, todos, errs, doneClosed, wtpc>>

\* worker o: case todo := <-todoChan: if todo != nil { append under mu }
WorkerSelectTodo(o) ==
    /\ wpc[o] = "select"
    /\ CanRecv(todoChan[o], todoClosed[o])
    /\ LET todo == RecvVal(todoChan[o], NilTodo) IN
          WorkerLeaveSelect(o, todo # NilTodo,
                            [todo |-> todo, err |-> NilErr, via |-> "todoChan"])
    /\ todoChan' = [todoChan EXCEPT ![o] = RecvRest(@)]
    /\ UNCHANGED errChan

\* worker o: case err := <-errChan: if err != nil { append under mu }
WorkerSelectErr(o) ==
    /\ wpc[o] = "select"
    /\ CanRecv(errChan[o], errClosed[o])
    /\ LET err == RecvVal(errChan[o], NilErr) IN
          WorkerLeaveSelect(o, err # NilErr,
                            [todo |-> NilTodo, err |-> err, via |-> "errChan"])
    /\ errChan' = [errChan EXCEPT ![o] = RecvRest(@)]
    /\ UNCHANGED todoChan

\* worker o: case <-ctx.Done(): return
WorkerSelectDone(o) ==
    /\ wpc[o] = "select"
    /\ ctxErr # "none"
    /\ WorkerLeaveSelect(o, FALSE, [todo |-> NilTodo, err |-> NilErr, via |-> "ctxDone"])
    /\ UNCHANGED <<todoChan, errChan>>

\* a Lock that does not wait for the mutex to be free
WorkerLockNoWait(o) ==
    /\ wpc[o] = "lock"
    /\ mu' = o
    /\ wpc' = [wpc EXCEPT ![o] = "crit"]
    /\ UNCHANGED <<mode, ids, now, ctxVars, fetchVars, chanVars, callerVars,
                   held, todos, errs, wg, doneClosed, wtpc>>

\* worker o: mu.Lock()
WorkerLock(o) ==
    /\ wpc[o] = "lock"
    /\ mu = 0
    /\ mu' = o
    /\ wpc' = [wpc EXCEPT ![o] = "crit"]
    /\ UNCHANGED <<mode, ids, now, ctxVars, fetchVars, chanVars, callerVars,
                   held, todos, errs, wg, doneClosed, wtpc>>

\* a worker without the deferred wg.Done()
WorkerAppendNoDone(o) ==
    /\ wpc[o] = "crit"
    /\ todos' = IF held[o].via = "todoChan" THEN Append(todos, held[o].todo) ELSE todos
    /\ errs' = IF held[o].via = "errChan" THEN Append(errs, TodoErr(o, held[o].err)) ELSE errs
    /\ mu' = 0
    /\ wpc' = [wpc EXCEPT ![o] = "done"]
    /\ UNCHANGED <<mode, ids, now, ctxVars, fetchVars, chanVars, callerVars,
                   held, wg, doneClosed, wtpc>>

\* worker o: the append to todos or to errs, mu.Unlock(), and on return the
\* deferred wg.Done()
WorkerAppend(o) ==
    /\ wpc[o] = "crit"
    /\ todos' = IF held[o].via = "todoChan" THEN Append(todos, held[o].todo) ELSE todos
    /\ errs' = IF held[o].via = "errChan" THEN Append(errs, TodoErr(o, held[o].err)) ELSE errs
    /\ mu' = 0
    /\ wg' = wg - 1
    /\ wpc' = [wpc EXCEPT ![o] = "done"]
    /\ UNCHANGED <<mode, ids, now, ctxVars, fetchVars, chanVars, callerVars,
                   held, doneClosed, wtpc>>

WorkerStep(o) ==
    \/ WorkerFetch(o)
    \/ WorkerSelectTodo(o)
    \/ WorkerSelectErr(o)
    \/ WorkerSelectDone(o)
    \/ WorkerLock(o)
    \/ WorkerAppend(o)

WorkerNext == \E o \in Ops : WorkerStep(o)

WorkerReady(o) ==
    \/ wpc[o] \in {"fetch", "crit"}
    \/ wpc[o] = "lock" /\ mu = 0
    \/ /\ wpc[o] = "select"
       /\ \/ CanRecv(todoChan[o], todoClosed[o])
          \/ CanRecv(errChan[o], errClosed[o])
          \/ ctxErr # "none"

\* the caller leaves its select by the case via
BatchLeaveSelect(via) ==
    /\ mode = "batch"
    /\ cpc = "select"
    /\ cpc' = "return"
    /\ result' = [NoResult EXCEPT !.via = via]
    /\ UNCHANGED <<mode, ids, now, ctxVars, fetchVars, chanVars, retAt, batchVars>>

\* case <-done: all goroutines completed
BatchSelectDone == doneClosed /\ BatchLeaveSelect("done")

\* BatchSelectCtx with the ctx.Done() case left out of the select: the caller
\* leaves only once done is closed
BatchSelectCtxLeftOut == doneClosed /\ BatchLeaveSelect("done")

\* case <-ctx.Done(): return what we have so far
BatchSelectCtx == ctxErr # "none" /\ BatchLeaveSelect("ctxDone")

\* The worker that is inside its append (between mu.Lock() and mu.Unlock())
\* to the slice fed from the select case via, if there is one
Appending(via) == {o \in Ops : wpc[o] = "crit" /\ held[o].via = via}

\* what a read of errs[0] yields when it takes the length of the new slice
\* header and the pointer of the old, empty one
Garbage == [op |-> 0, id |-> 0, err |-> Errorf("garbage", "none")]

\* What the unlocked read of todos can see: the slice as it is, or, while a
\* worker is inside its append, the slice with that element already in it.
TodosSeen == {todos} \cup {Append(todos, held[o].todo) : o \in Appending("todoChan")}

\* What the unlocked reads of len(errs) and errs[0] can see: the slice as it
\* is, or, while a worker is inside its append, the slice with that element in
\* it or, when that append is the first one, the new length over the old array.
ErrsSeen ==
    {errs}
    \cup {Append(errs, TodoErr(o, held[o].err)) : o \in Appending("errChan")}
    \cup (IF errs = <<>> /\ Appending("errChan") # {} THEN {<<Garbage>>} ELSE {})

\* the return: todos as it is read now, and "%d errors occurred: %v" of
\* len(errs) and errs[0] when errs is not empty, else a nil error.  The reads
\* take no lock: a read that overlaps an append is a data race.
BatchReturn ==
    /\ mode = "batch"
    /\ cpc = "return"
    /\ \E ts \in TodosSeen, es \in ErrsSeen :
          result' = [todos |-> ts,
                     count |-> Len(es),
                     first |-> IF Len(es) > 0 THEN es[1] ELSE TodoErr(1, NilErr),
                     isNil |-> Len(es) = 0,
                     errs |-> es,
                     raced |-> \E o \in Ops : wpc[o] = "crit",
                     via |-> result.via]
    /\ retAt' = now
    /\ cpc' = "returned"
    /\ UNCHANGED <<mode, ids, now, ctxVars, fetchVars, chanVars, batchVars>>

BatchCallerReady ==
    \/ cpc \in {"call", "return"}
    \/ cpc = "select" /\ (doneClosed \/ ctxErr # "none")

WaiterReady == (wtpc = "wait" /\ wg = 0) \/ wtpc = "close"

BatchBusy ==
    \/ BatchCallerReady
    \/ WaiterReady
    \/ \E o \in Ops : WorkerReady(o) \/ FetchReady(o)

\* One second passes in a run of fetchMultipleTodos
BatchTick ==
    /\ ~BatchBusy
    /\ now < MaxTime
    /\ now' = now + 1
    /\ ctxErr' = IF ctxErr = "none" /\ ctxDeadline # NoDeadline /\ now + 1 >= ctxDeadline
                 THEN "deadline" ELSE ctxErr
    /\ UNCHANGED <<mode, ids, ctxDeadline, minDuration, tctxAt, tctxErr, cancelAt,
                   fetchVars, chanVars, callerVars, batchVars>>

\* the ids given: 1..MaxN of them, all different or all the same
IdSeqs == UNION {{[o \in 1..n |-> o], [o \in 1..n |-> 1]} : n \in 1..MaxN}

\* fetchMultipleTodos(ctx, ids...) about to be called
BatchInit ==
    /\ \E is \in IdSeqs, d \in Deadlines : InitCommon("batch", is, d)
    /\ minDuration = 0

BatchNext ==
    \/ FetchNext
    \/ WorkerNext
    \/ BatchSpawn
    \/ BatchSpawnWaiter
    \/ WaiterWait
    \/ WaiterClose
    \/ BatchSelectDone
    \/ BatchSelectCtx
    \/ BatchReturn
    \/ Cancel
    \/ BatchTick

SpecBatch == BatchInit /\ [][BatchNext]_vars

\* A step of the caller of fetchMultipleTodos, and of its waiter goroutine
BatchCallerNext ==
    BatchSpawn \/ BatchSpawnWaiter \/ BatchSelectDone \/ BatchSelectCtx \/ BatchReturn
WaiterNext == WaiterWait \/ WaiterClose

\* The calls whose progress is checked: MaxN workers, and a ctx without a
\* deadline, with the deadline of Example 1 (inside the delay) or with one
\* after every goroutine has sent; Cancel ends ctx at every other moment.
LiveDeadlines == {NoDeadline, ExampleTimeout, MaxDeadline}
BatchLiveInit ==
    /\ \E d \in LiveDeadlines : InitCommon("batch", [o \in 1..MaxN |-> o], d)
    /\ minDuration = 0

\* The scheduler runs every goroutine that can run and the clock advances.
LiveSpecBatch ==
    /\ BatchLiveInit /\ [][BatchNext]_vars
    /\ WF_vars(FetchNext)
    /\ WF_vars(WorkerNext)
    /\ WF_vars(BatchCallerNext)
    /\ WF_vars(WaiterNext)
    /\ WF_vars(BatchTick)

\* ================================================================ claims
Returned == cpc = "returned"
SimReturned == mode = "simulate" /\ Returned
\* the goroutine of operation o has sent exactly the Todo / an error
SentTodo(o) == Len(sent[o]) = 1 /\ sent[o][1].ch = "todo"
SentErr(o) == Len(sent[o]) = 1 /\ sent[o][1].ch = "err"
\* t lies before the deadline d (always, when there is no deadline)
Before(t, d) == d = NoDeadline \/ t < d

\* C1: the fetch goroutine sends at most one value over its two channels, the
\* value is a non-nil Todo on todoChan or a non-nil error on errChan, and by
\* the time it closes a channel it has sent exactly one.
C1_ExactlyOneSend ==
    \A o \in Ops :
        /\ Len(sent[o]) <= 1
        /\ (errClosed[o] \/ todoClosed[o]) => Len(sent[o]) = 1
        /\ \A i \in 1..Len(sent[o]) :
              \/ sent[o][i].ch = "todo" /\ sent[o][i].todo # NilTodo
              \/ sent[o][i].ch = "err" /\ sent[o][i].err # NilErr
        /\ Len(todoChan[o]) + Len(errChan[o]) <= 1

\* C1 witness: a goroutine cancelled during its delay has sent its error,
\* closed both channels and ended.
C1_Witness ==
    \E o \in Ops :
        /\ fpc[o] = "done"
        /\ SentErr(o)
        /\ sent[o][1].err.kind = "request cancelled before starting"
        /\ errClosed[o] /\ todoClosed[o]

\* C2 (as claimed): every return of simulateSlowRequest is either the Todo the
\* goroutine produced with a nil error, or a nil Todo with a non-nil error.
C2_OneOutcome ==
    SimReturned =>
        \/ result.todo = TodoOf(1) /\ result.err = NilErr
        \/ result.todo = NilTodo /\ result.err # NilErr

\* C3 (as claimed): with the caller's deadline D shorter than the stage delay
\* (minDuration being no shorter than the delay, and no cancellation from
\* outside), the
\* operation ends at D with a failure that carries "context deadline
\* exceeded" and never a Todo; Example 1 logs no success but an error or a done
\* context with "context deadline exceeded", at 2 seconds.
C3_DeadlineExceeded ==
    /\ ( /\ SimReturned
         /\ 0 < ctxDeadline /\ ctxDeadline < Delay
         /\ Delay <= minDuration
         /\ cancelAt = NoDeadline )
       => /\ result.todo = NilTodo
          /\ result.err.cause = "deadline"
          /\ retAt = ctxDeadline
    /\ (mode = "main1" /\ Returned)
       => /\ result.via # "todoChan"
          /\ result.err.cause = "deadline"
          /\ retAt = ExampleTimeout

\* C4 (as claimed): when the goroutine has sent its Todo before every deadline
\* in force and nothing was cancelled, simulateSlowRequest returns that Todo.
C4_Success ==
    ( /\ SimReturned
      /\ SentTodo(1)
      /\ Before(sentAt[1], ctxDeadline)
      /\ sentAt[1] < tctxAt
      /\ cancelAt = NoDeadline )
    => result.todo = TodoOf(1) /\ result.err = NilErr

\* C5 (as claimed): when ctx is cancelled from outside while simulateSlowRequest
\* waits, before any deadline and before the operation has produced a result,
\* simulateSlowRequest returns at the time of the
\* cancellation a failure that carries "context canceled".
C5_Cancelled ==
    ( /\ SimReturned
      /\ ctxErr = "canceled"
      /\ 0 < cancelAt /\ cancelAt < tctxAt
      /\ sent[1] = <<>> \/ (SentErr(1) /\ sent[1][1].err.cause = "canceled") )
    => /\ result.todo = NilTodo
       /\ result.err.cause = "canceled"
       /\ retAt = cancelAt

\* C6 (as claimed): when the Fetcher or the Decoder failed and the caller
\* returned before any deadline or cancellation, the caller returned the very
\* error the goroutine sent.
C6_FailureSurfaced ==
    ( /\ SimReturned
      /\ SentErr(1)
      /\ sent[1][1].err.cause = "none"
      /\ sentAt[1] < tctxAt
      /\ Before(retAt, ctxDeadline)
      /\ Before(retAt, cancelAt) )
    => result.todo = NilTodo /\ result.err = sent[1][1].err

\* C7: while simulateSlowRequest waits, neither the deadline D nor the send of
\* the goroutine lies in the past, and as soon as ctx is done or the goroutine
\* has ended its select can proceed; it has returned by D and by the
\* goroutine's send; and it eventually returns.
C7_Waiting ==
    (mode = "simulate" /\ cpc = "select") =>
        /\ Before(now - 1, ctxDeadline)
        /\ Before(now - 1, sentAt[1]) \/ sentAt[1] = NoDeadline
        /\ (ctxErr # "none" \/ fpc[1] = "done")
              => ENABLED (SimSelectTodo \/ SimSelectErr \/ SimSelectDone)

C7_ReturnedInTime ==
    SimReturned =>
        /\ Before(retAt - 1, ctxDeadline)
        /\ Before(retAt - 1, sentAt[1])

C7_Returns == [](C7_Waiting /\ C7_ReturnedInTime) /\ <>(mode = "simulate" => Returned)

\* C7 witness: the goroutine was still in its call of the remote end when ctx
\* became done, and simulateSlowRequest returned at that moment.
C7_Witness ==
    /\ SimReturned
    /\ result.via = "ctxDone"
    /\ retAt = ctxDeadline
    /\ retAt > Delay
    /\ sentAt[1] = retAt


\* ------------------------------------------------- fetchMultipleTodos
BatchReturned == mode = "batch" /\ cpc = "returned"
\* the operations whose goroutine sent a Todo / sent an error
Succeeded == {o \in Ops : SentTodo(o)}
Failed == {o \in Ops : SentErr(o)}
\* every goroutine has sent, of its own accord, before ctx was done
AllCompletedInTime ==
    /\ cancelAt = NoDeadline
    /\ \A o \in Ops :
          /\ Len(sent[o]) = 1
          /\ sent[o][1].err.cause = "none"
          /\ Before(sentAt[o], ctxDeadline)

\* the clock at which ctx became done (NoDeadline when it cannot)
CtxDoneAt == IF cancelAt # NoDeadline THEN cancelAt ELSE ctxDeadline

\* C8 (as claimed): when all N operations succeed before ctx is done,
\* fetchMultipleTodos returns exactly N Todos and a nil error.
C8_AllSucceed ==
    (BatchReturned /\ AllCompletedInTime /\ Failed = {})
    => Len(result.todos) = Len(ids) /\ result.isNil

\* C9 (as claimed): when M operations succeed and K fail, all before ctx is
\* done, fetchMultipleTodos returns exactly M Todos and, when K > 0, an error
\* whose count is K.
C9_MixedCounts ==
    (BatchReturned /\ AllCompletedInTime)
    => /\ Len(result.todos) = Cardinality(Succeeded)
       /\ result.count = Cardinality(Failed)
       /\ result.isNil <=> Failed = {}

\* C10 (as claimed): when ctx becomes done during the call, an operation still
\* outstanding at that moment (its goroutine had sent nothing of its own
\* accord by then) adds no Todo to the result and is not counted among its
\* errors.
C10_OutstandingAbsent ==
    (BatchReturned /\ CtxDoneAt > 0) =>
        \A o \in Ops :
            (sent[o] = <<>> \/ (SentErr(o) /\ sent[o][1].err.cause # "none"))
            => /\ \A i \in 1..Len(result.todos) : result.todos[i].op # o
               /\ \A i \in 1..Len(result.errs) : result.errs[i].op # o

\* C11 (as claimed): a non-nil error of fetchMultipleTodos (ctx not being done
\* from the start) names the failure that was recorded first (the first element
\* of errs, or the one being appended as the first) and counts no more failures
\* than are recorded; a nil error counts none.
C11_FirstFailure ==
    (BatchReturned /\ CtxDoneAt # 0) =>
        IF result.isNil THEN result.count = 0
        ELSE /\ result.count <= Len(errs) + Cardinality(Appending("errChan"))
             /\ result.first \in
                   IF Len(errs) > 0 THEN {errs[1]}
                   ELSE {TodoErr(o, held[o].err) : o \in Appending("errChan")}

\* C12: fetchMultipleTodos leaves its select only when every worker has
\* finished (done is closed) or ctx is done; while it waits ctx's end does not
\* lie in the past, and its select can proceed as soon as ctx is done or done
\* is closed; once ctx is done, and once all workers have finished, it
\* eventually returns.
AllWorkersDone == \A o \in Ops : wpc[o] = "done"

C12_NotEarly ==
    (mode = "batch" /\ cpc \in {"return", "returned"}) =>
        \/ result.via = "done" /\ doneClosed /\ AllWorkersDone /\ wg = 0
        \/ result.via = "ctxDone" /\ ctxErr # "none"

C12_AsSoonAs ==
    (mode = "batch" /\ cpc = "select") =>
        /\ Before(now - 1, CtxDoneAt)
        /\ (ctxErr # "none" \/ doneClosed) => ENABLED (BatchSelectDone \/ BatchSelectCtx)
        /\ AllWorkersDone => (doneClosed \/ ENABLED (WaiterWait \/ WaiterClose))

C12_StopsWaiting ==
    /\ [](C12_NotEarly /\ C12_AsSoonAs)
    /\ (ctxErr # "none" \/ AllWorkersDone) ~> (cpc = "returned")

\* C12 witness: fetchMultipleTodos has returned on ctx.Done() while a worker
\* was still waiting in its select and a fetch goroutine was still running.
C12_Witness ==
    /\ BatchReturned
    /\ result.via = "ctxDone"
    /\ \E o \in Ops : wpc[o] = "select" /\ fpc[o] \in {"delay", "do"}

\* ------------------------------------------------- simulateSlowRequest, as documented
\* the remote end did not fail (it answered, or was never called)
RemoteDidNotFail == ~(SentErr(1) /\ sent[1][1].err.cause = "none")

\* C13 (as claimed): with the caller's ctx timing out at 2s and nothing
\* cancelled from outside, a minDuration below 2s makes simulateSlowRequest
\* succeed: it returns the fetched Todo and a nil error, the remote call not
\* failing.
C13_ReducedSucceeds ==
    ( /\ SimReturned
      /\ ctxDeadline = ExampleTimeout
      /\ 0 < minDuration /\ minDuration < ExampleTimeout
      /\ cancelAt = NoDeadline
      /\ RemoteDidNotFail )
    => result.todo = TodoOf(1) /\ result.err = NilErr

\* C14 (as claimed): whenever simulateSlowRequest returns a Todo and a nil
\* error, at least minDuration has elapsed since it was called (at clock 0).
C14_AtLeastMinDuration ==
    (SimReturned /\ result.todo = TodoOf(1) /\ result.err = NilErr)
    => retAt >= minDuration

\* ------------------------------------------------- the workers' shared state
\* the workers that are between mu.Lock() and mu.Unlock()
InCrit == {o \in Ops : wpc[o] = "crit"}

\* C15: at most one worker is appending and it holds mu; todos and errs change
\* only by the append of the worker that holds mu, one element at a time; and a
\* step of one worker leaves what belongs to the other workers (their position,
\* the value they received, their channels) unchanged.
C15_Exclusive ==
    /\ Cardinality(InCrit) <= 1
    /\ \A o \in Ops : wpc[o] = "crit" <=> mu = o

C15_AppendUnderMu ==
    (todos' # todos \/ errs' # errs) =>
        \E o \in Ops :
            /\ mu = o /\ wpc[o] = "crit" /\ wpc'[o] = "done" /\ mu' = 0
            /\ \/ todos' = Append(todos, held[o].todo) /\ errs' = errs
               \/ errs' = Append(errs, TodoErr(o, held[o].err)) /\ todos' = todos

C15_NothingElseShared ==
    \A o \in Ops :
        WorkerStep(o) =>
            \A p \in Ops \ {o} :
                /\ wpc'[p] = wpc[p] /\ held'[p] = held[p]
                /\ todoChan'[p] = todoChan[p] /\ errChan'[p] = errChan[p]
                /\ fpc'[p] = fpc[p]

C15_AppendsHoldMu ==
    /\ []C15_Exclusive
    /\ [][C15_AppendUnderMu /\ C15_NothingElseShared]_vars

\* C15 witness: one worker is appending while another waits for mu.
C15_Witness ==
    \E o, p \in Ops : wpc[o] = "crit" /\ mu = o /\ wpc[p] = "lock"

\* ------------------------------------------------- the stages of the fetch goroutine
\* the moments at which the ctx of the fetch goroutines can have become done:
\* the caller's deadline, a cancellation from outside, timeoutCtx's deadline
\* and the deferred cancel() of simulateSlowRequest
FetchCtxEnds == {ctxDeadline, cancelAt, tctxAt} \cup (IF mode = "simulate" THEN {retAt} ELSE {})
\* the order of the stages: delay, Fetcher call, decode and delivery, closes
StageOrder ==
    { <<"none", "delay">>, <<"delay", "request">>, <<"delay", "closeErr">>,
      <<"request", "do">>, <<"do", "closeErr">>, <<"closeErr", "closeTodo">>,
      <<"closeTodo", "done">> }

\* C16: a goroutine whose ctx is done during the delay can send its
\* 'request cancelled before starting' error at once; the Fetcher is called
\* only after the delay has elapsed and never when ctx was done before that; a
\* goroutine that reported 'request cancelled before starting' has not called
\* the Fetcher; a Todo or a failure of the Fetcher or Decoder is delivered
\* after exactly one call, not before its answer; and the stages follow each
\* other in the order delay, call, delivery.
C16_Interruptible ==
    \A o \in Ops :
        /\ (fpc[o] = "delay" /\ FetchCtxErr # "none") => ENABLED DelayCancelled(o)
        /\ calls[o] > 0 =>
              /\ now >= timerAt[o]
              /\ \A c \in FetchCtxEnds : Before(timerAt[o] - 1, c)
        /\ (Len(sent[o]) = 1 /\ sent[o][1].err.kind = "request cancelled before starting")
              => calls[o] = 0 /\ sent[o][1].ch = "err" /\ sent[o][1].err.cause # "none"
        /\ (Len(sent[o]) = 1 /\ sent[o][1].err.kind # "request cancelled before starting")
              => calls[o] = 1 /\ sentAt[o] >= timerAt[o]
        /\ (SentTodo(o) \/ (SentErr(o) /\ sent[o][1].err.cause = "none"))
              => sentAt[o] >= respAt[o] /\ respAt[o] >= timerAt[o]

C16_InOrder ==
    \A o \in Ops :
        /\ fpc'[o] # fpc[o] => <<fpc[o], fpc'[o]>> \in StageOrder
        /\ (fpc[o] = "delay" /\ FetchCtxErr # "none" /\ now < timerAt[o] /\ fpc'[o] # "delay")
              => /\ fpc'[o] = "closeErr"
                 /\ errChan'[o] = <<Errorf("request cancelled before starting", FetchCtxErr)>>
                 /\ now' = now

C16_Stages == []C16_Interruptible /\ [][C16_InOrder]_vars

\* C16 witness: a goroutine was cancelled before its delay had elapsed, has
\* sent its error and ended without a call of the Fetcher, and the clock has
\* since passed the end of the delay.
C16_Witness ==
    \E o \in Ops :
        /\ fpc[o] = "done" /\ calls[o] = 0
        /\ SentErr(o) /\ sentAt[o] < timerAt[o]
        /\ now >= timerAt[o]

\* ------------------------------------------------- one operation per id, one call per operation
\* the operations whose fetch goroutine has been started
Started == {o \in Ops : fpc[o] # "none"}

\* C17: no operation calls the Fetcher more than once, whatever failed; an
\* operation that delivered the answer of the Fetcher called it exactly once;
\* when fetchMultipleTodos waits, a worker has been started for every element
\* of ids, and when all workers have finished exactly Len(ids) operations were
\* started, duplicates of an id included; and no operation is ever started a
\* second time or goes back from a failure to the call.
C17_OncePerOperation ==
    /\ \A o \in Ops : calls[o] <= 1
    /\ \A o \in Ops : (SentTodo(o) \/ (SentErr(o) /\ sent[o][1].err.cause = "none"))
                           => calls[o] = 1
    /\ \A o \in Ops : wpc[o] \in {"select", "lock", "crit", "done"} <=> fpc[o] # "none"
    /\ (mode = "batch" /\ cpc # "call") => \A o \in Ops : wpc[o] # "none"
    /\ (mode = "batch" /\ AllWorkersDone) => Cardinality(Started) = Len(ids)

C17_NoRestart ==
    \A o \in Ops :
        /\ calls'[o] \in {calls[o], calls[o] + 1}
        /\ calls'[o] # calls[o] => fpc[o] = "request" /\ fpc'[o] = "do"
        /\ (fpc'[o] # fpc[o] /\ fpc'[o] \in {"delay", "request"})
              => fpc[o] \in {"none", "delay"}
        /\ (wpc'[o] # wpc[o] /\ wpc'[o] = "fetch") => wpc[o] = "none"

C17_NoRetry == []C17_OncePerOperation /\ [][C17_NoRestart]_vars

\* C17 witness: a batch over the same id twice in which both operations
\* failed at the Fetcher or Decoder: two operations ran and each called the
\* Fetcher once.
C17_Witness ==
    /\ mode = "batch" /\ Len(ids) = 2 /\ ids[1] = ids[2]
    /\ \A o \in Ops :
          /\ fpc[o] = "done" /\ calls[o] = 1
          /\ SentErr(o) /\ sent[o][1].err.cause = "none"

\* ------------------------------------------------- the abandoned goroutine
\* C18: until it has sent, a fetch goroutine's channels are open and empty, so
\* its send has room with nobody receiving and never meets a closed channel;
\* every step it is ready to take can be taken (it waits for the timer, for
\* the Fetcher's answer and for nothing else); each channel is closed once, by
\* the goroutine, errChan before todoChan and both after the send; and every
\* goroutine runs to its end.
C18_NeverBlocked ==
    \A o \in Ops :
        /\ fpc[o] \in {"none", "delay", "request", "do"}
              => /\ ~errClosed[o] /\ ~todoClosed[o]
                 /\ errChan[o] = <<>> /\ todoChan[o] = <<>>
                 /\ sent[o] = <<>>
        /\ fpc[o] = "closeErr" => ~errClosed[o] /\ ~todoClosed[o]
        /\ fpc[o] = "closeTodo" => errClosed[o] /\ ~todoClosed[o]
        /\ fpc[o] = "done" => errClosed[o] /\ todoClosed[o]
        /\ FetchReady(o) => ENABLED FetchStep(o)
        /\ (fpc[o] = "delay" /\ FetchCtxErr # "none") => ENABLED DelayCancelled(o)
        /\ (fpc[o] = "do" /\ FetchCtxErr # "none") => ENABLED DoInterrupted(o)
        /\ (fpc[o] = "do" /\ now >= respAt[o])
              => ENABLED FetchSucceeds(o) /\ ENABLED FetchFails(o)
        /\ fpc[o] \in {"closeErr", "closeTodo"} => ENABLED FetchStep(o)

C18_ClosedOnce ==
    \A o \in Ops :
        /\ errClosed'[o] # errClosed[o] => ~errClosed[o] /\ fpc[o] = "closeErr"
        /\ todoClosed'[o] # todoClosed[o] => ~todoClosed[o] /\ fpc[o] = "closeTodo"
        /\ Len(sent'[o]) > Len(sent[o]) => ~errClosed[o] /\ ~todoClosed[o]

C18_RunsToEnd ==
    /\ []C18_NeverBlocked
    /\ [][C18_ClosedOnce]_vars
    /\ <>(\A o \in Ops : fpc[o] = "done")

\* C18 witness: the caller has returned on ctx.Done() without receiving, and
\* the goroutine has sent its value into the buffer, closed both channels and
\* ended.
C18_Witness ==
    /\ Returned /\ result.via = "ctxDone"
    /\ fpc[1] = "done"
    /\ Len(errChan[1]) + Len(todoChan[1]) = 1

\* ------------------------------------------------- the final read
\* C19 (as claimed): when fetchMultipleTodos has returned (no goroutine having
\* reported a cancellation), no worker was between mu.Lock() and mu.Unlock()
\* while it read todos and errs, and todos and errs still are what it read: no
\* worker appended during or after the read.
C19_ReadExclusive ==
    (BatchReturned /\ \A o \in Ops : sent[o] = <<>> \/ sent[o][1].err.cause = "none") =>
        /\ ~result.raced
        /\ todos = result.todos
        /\ errs = result.errs

\* ------------------------------------------------- no goroutine left behind
\* the workers that have been started and have not returned
Running == {o \in Ops : wpc[o] \notin {"none", "done"}}

\* C20: the WaitGroup counts the workers that are running, mu is held only
\* by a worker that is about to release it, a worker, the waiter or a fetch
\* goroutine that is ready can take its step, and a worker's select is ready
\* once its fetch goroutine has ended; under fair scheduling every fetch
\* goroutine and every worker ends and the waiter closes done, and they stay
\* so, whichever way the caller left its select.
C20_NobodyStuck ==
    /\ wg = Cardinality(Running)
    /\ mu # 0 => mu \in Ops /\ wpc[mu] = "crit"
    /\ \A o \in Ops :
          /\ WorkerReady(o) => ENABLED WorkerStep(o)
          /\ (wpc[o] = "select" /\ fpc[o] = "done") => WorkerReady(o)
          /\ (wpc[o] = "lock" /\ mu = 0) => ENABLED WorkerLock(o)
    /\ WaiterReady => ENABLED WaiterNext
    /\ doneClosed => AllWorkersDone /\ wtpc = "done"

C20_AllEnded ==
    /\ AllWorkersDone
    /\ \A o \in Ops : fpc[o] = "done"
    /\ doneClosed /\ wtpc = "done" /\ wg = 0 /\ mu = 0

C20_Terminates == []C20_NobodyStuck /\ <>[]C20_AllEnded

\* C20 witness: the caller returned on ctx.Done(), a worker has appended to
\* todos after that, and every worker, every fetch goroutine and the waiter
\* have ended.
C20_Witness ==
    /\ BatchReturned /\ result.via = "ctxDone"
    /\ Len(result.todos) < Len(todos)
    /\ C20_AllEnded


=============================================================================
